---- MODULE Spec2Model ----
(***************************************************************************)
(* Model of the interview-transcript pipeline:                             *)
(*   compile_transcripts.py  (Segmenter)                                   *)
(*   src/label_with_context.py (Classifier)                                *)
(*   src/check_labels.py       (Validator)                                 *)
(*                                                                         *)
(* Text is modelled as a sequence of tokens.  A token is either a single   *)
(* character that the code inspects (" ", TAB, NBSP, "_", "Q", "R", a      *)
(* digit) or an atomic word (a label code, or another word).  The Python   *)
(* string of a text is the concatenation of its tokens; no concatenation   *)
(* of two or more tokens used here spells a label code.                    *)
(***************************************************************************)
EXTENDS Integers, Sequences, FiniteSets, TLC

VARIABLES
    \* ---- classify_with_gpt (one call) ----
    max_retries,    \* argument max_retries of the running call
    backoff_sec,    \* argument backoff_sec of the running call
    attempt,        \* loop variable of "for attempt in range(1, max_retries + 1)"
    olog,           \* outcomes of the oracle invocations of this call, in order
    slept,          \* total of time.sleep() arguments of this call
    result,         \* value returned by the call (NoneVal: nothing / None)
    cpc,            \* "idle" | "try" | "returned"
    \* ---- process_file ----
    files,          \* the interviews the input sheet was compiled from (if any)
    df,             \* df: the rows of the input sheet
    i,              \* i of "for i in range(0, len(df), 2)"
    col,            \* col
    q_counter,      \* q_counter
    new_headers,    \* new_headers
    new_content,    \* new_content
    out_rows,       \* out_rows
    classified,     \* the <<i, col>> of every classify_with_gpt call made, in order
    call,           \* the arguments of the latest classify_with_gpt call
    output,         \* the rows written to output_path
    ppc,            \* "idle" | "rows" | "cols" | "call" | "done"
    \* ---- check_sheet ----
    ws,             \* the worksheet: rows of cells (header and content rows)
    vrow,           \* r: the next header row of "for r in range(1, max_row + 1, 2)"
    errors,         \* errors: defaultdict(int), category -> count
    total_headers,  \* total_headers
    fills,          \* cells filled RED: <<row, column, check that filled it>>
    report,         \* the report returned by check_sheet
    vpc,            \* "idle" | "scan" | "saved"
    \* ---- compute_improvement (called by main of check_labels.py) ----
    current,        \* current_report
    baseline,       \* baseline_report
    improvement,    \* the value returned by compute_improvement
    ipc,            \* "idle" | "done"
    \* ---- compile_one_file (one interview) ----
    doc_tokens,     \* tokens: the words of the document text (full_text.split())
    segs,           \* segments returned by split_speaker_segments
    qr,             \* (questions, answers, starts_with_corp)
    compiled,       \* [headers, values] returned by compile_one_file
    spc,            \* "idle" | "tokens" | "segments" | "parsed" | "compiled"
    \* ---- import of label_with_context.py ----
    api_key,        \* os.getenv("OPENAI_API_KEY") (NoneVal: not set)
    sdk,            \* the installed openai package: "new" | "legacy" | "absent"
    CLIENT_MODE     \* CLIENT_MODE (NoneVal: module not imported, FAIL: import raised)

cvars == <<max_retries, backoff_sec, attempt, olog, slept, result, cpc>>

pvars == <<files, df, i, col, q_counter, new_headers, new_content, out_rows,
           classified, call, output, ppc>>

vvars == <<ws, vrow, errors, total_headers, fills, report, vpc>>

ivars == <<current, baseline, improvement, ipc>>

svars == <<doc_tokens, segs, qr, compiled, spc>>

mvars == <<api_key, sdk, CLIENT_MODE>>

vars == <<cvars, pvars, vvars, ivars, svars, mvars>>

(***************************************************************************)
(* Bounds                                                                  *)
(***************************************************************************)
MaxRetriesCfg == 6      \* max_retries arguments tried: 0..MaxRetriesCfg
MaxValCols == 3         \* Validator: header cells per row (after the metadata)
MaxValRows == 2         \* Validator: header rows of a multi-record sheet
MaxCols == 3            \* process_file: header cells of a one-record table
MaxRecords == 2         \* process_file: records of a many-record table
MaxSegs == 3            \* Segmenter: segments of one interview
MaxFiles == 2           \* Segmenter: interviews compiled into one sheet
MaxWords == 4           \* Segmenter: words of one document
MaxTotal == 10          \* compute_improvement: total_errors of a report
MaxTypeCount == 3       \* compute_improvement: count of one error category

(***************************************************************************)
(* Program constants                                                       *)
(***************************************************************************)
DEFAULT_MAX_RETRIES == 5
DEFAULT_BACKOFF == 2

SP == " "
TAB == "\t"
NBSP == "<nbsp>"
NoneVal == "<None>"
FAIL == "<raise>"

\* LABEL_CODES of label_with_context.py
LABEL_CODES ==
    << "Intro", "Current_Status", "Wife_Or_You", "End_Year", "Daily_Tasks",
       "Ward_Languages", "Mother_Tongue", "Other_Lang_Spoken",
       "Other_Lang_Understood", "Hindi_Dialects", "Hindi_Dialect_Differences",
       "Correct_Hindi", "Dialect_Job_Impact", "Dialect_Constituents_1on1_Impact",
       "Dialect_Constituents_Groups_Impact", "Dialect_Corp_Impact",
       "Dialect_Leaders_Impact", "Dialect_Choice_Example",
       "Dialect_Choice_Grievance", "Dialect_Choice_Campaigning",
       "Dialect_Choice_Meetings", "Dialect_Choice_Bureaucrats",
       "Dialect_Choice_Other", "Dialect_Choice_Multiple", "Unmatched", "Thanks" >>

LABEL_SET == { LABEL_CODES[n] : n \in 1..Len(LABEL_CODES) }

(***************************************************************************)
(* String helpers (Python str methods and re on token sequences)           *)
(***************************************************************************)
\* str.isspace() / regex \s on one token
IsWS(t) == t \in {SP, TAB, NBSP}

RECURSIVE LStrip(_)
LStrip(s) == IF s # <<>> /\ IsWS(Head(s)) THEN LStrip(Tail(s)) ELSE s

RECURSIVE RStrip(_)
RStrip(s) ==
    IF s # <<>> /\ IsWS(s[Len(s)]) THEN RStrip(SubSeq(s, 1, Len(s) - 1)) ELSE s

\* str.strip()
Strip(s) == RStrip(LStrip(s))

\* str.replace(NBSP, " ")
ReplaceNBSP(s) == [n \in 1..Len(s) |-> IF s[n] = NBSP THEN SP ELSE s[n]]

\* re.split(r"[\s\n\r]+", text)[0]: the text before the first whitespace run
RECURSIVE FirstChunk(_)
FirstChunk(s) ==
    IF s = <<>> \/ IsWS(Head(s)) THEN <<>> ELSE <<Head(s)>> \o FirstChunk(Tail(s))

\* "text in LABEL_SET" for a token sequence
InLabelSet(s) == Len(s) = 1 /\ s[1] \in LABEL_SET

(***************************************************************************)
(* HEADER_RE = ^\s*([RQ])\s*_(\d+)\s*_(.+?)\s*$                            *)
(***************************************************************************)
IsDigit(t) == t \in {"0", "1", "2", "3", "4", "5", "6", "7", "8", "9"}

\* (\d+): the longest run of digits at the front of s
RECURSIVE TakeDigits(_)
TakeDigits(s) ==
    IF s # <<>> /\ IsDigit(Head(s)) THEN <<Head(s)>> \o TakeDigits(Tail(s)) ELSE <<>>

NoMatch == [ok |-> FALSE, kind |-> NoneVal, idx |-> <<>>, label |-> <<>>]

\* (.+?)\s*$ : the shortest non-empty prefix that only whitespace follows
HR_label(kind, digs, e) ==
    IF e = <<>> THEN NoMatch
    ELSE [ok |-> TRUE, kind |-> kind, idx |-> digs,
          label |-> IF RStrip(e) = <<>> THEN <<Head(e)>> ELSE RStrip(e)]

\* \s*_ after the digits
HR_second(kind, digs, d) ==
    IF d = <<>> \/ Head(d) # "_" THEN NoMatch ELSE HR_label(kind, digs, Tail(d))

\* (\d+)
HR_digits(kind, c, digs) ==
    IF digs = <<>> THEN NoMatch
    ELSE HR_second(kind, digs, LStrip(SubSeq(c, Len(digs) + 1, Len(c))))

\* \s*_ after the kind
HR_first(kind, b) ==
    IF b = <<>> \/ Head(b) # "_" THEN NoMatch
    ELSE HR_digits(kind, Tail(b), TakeDigits(Tail(b)))

\* ([RQ])
HR_kind(a) ==
    IF a = <<>> \/ Head(a) \notin {"R", "Q"} THEN NoMatch
    ELSE HR_first(Head(a), LStrip(Tail(a)))

\* HEADER_RE.match(text): groups (kind, idx, label) of the match, if any
HEADER_RE(text) == HR_kind(LStrip(text))

(***************************************************************************)
(* classify_with_gpt                                                       *)
(***************************************************************************)
\* lines 140/151 and 154-157: normalise the reply and validate it
DecodeReply(content) ==
    LET t1 == Strip(content)
        t2 == Strip(ReplaceNBSP(t1))
        t3 == FirstChunk(t2)
    IN  IF InLabelSet(t3) THEN t3[1] ELSE "Unmatched"

\* line 160: the exception handler gives up on this attempt
IsLastAttempt(a, mr) == a = mr

RECURSIVE Pow2(_)
Pow2(n) == IF n <= 0 THEN 1 ELSE 2 * Pow2(n - 1)

\* (mutation) linear instead of exponential backoff
SleepFor_Linear(bo, a) == bo * a

\* line 163: sleep_for = backoff_sec * (2 ** (attempt - 1))
SleepFor(bo, a) == bo * Pow2(a - 1)

\* Replies the oracle may give on a successful call
OracleTexts ==
    { <<"Intro">>,
      <<>>,
      <<"Thanks", SP, "is", SP, "best">>,
      <<SP, "Daily_Tasks", TAB>>,
      <<NBSP, "End_Year", NBSP, "x">>,
      <<"intro">>,
      <<"Unmatched">>,
      <<"Bogus">>,
      <<"Intro", "_", "1">> }

BackoffArgs == {1, DEFAULT_BACKOFF}

CallIdle ==
    /\ max_retries = DEFAULT_MAX_RETRIES
    /\ backoff_sec = DEFAULT_BACKOFF
    /\ attempt = 0
    /\ olog = <<>>
    /\ slept = 0
    /\ result = NoneVal
    /\ cpc = "idle"

\* entry of classify_with_gpt up to the first evaluation of the for loop (line 127)
ClassifyCall(mr, bo) ==
    /\ cpc = "idle"
    /\ max_retries' = mr
    /\ backoff_sec' = bo
    /\ olog' = <<>>
    /\ slept' = 0
    /\ IF 1 <= mr
          THEN /\ attempt' = 1
               /\ cpc' = "try"
               /\ result' = NoneVal
          ELSE \* empty range: the function falls off its end and returns None
               /\ attempt' = 0
               /\ cpc' = "returned"
               /\ result' = NoneVal

\* lines 129-157: the oracle answers with a text of `replies`; the reply is
\* decoded and returned
OracleReturns(replies) ==
    /\ cpc = "try"
    /\ \E text \in replies :
          /\ olog' = Append(olog, text)
          /\ result' = DecodeReply(text)
    /\ cpc' = "returned"
    /\ UNCHANGED <<max_retries, backoff_sec, attempt, slept>>

\* lines 159-164: the oracle call (or reading its reply) raises an Exception
OracleRaises ==
    /\ cpc = "try"
    /\ olog' = Append(olog, <<FAIL>>)
    /\ IF IsLastAttempt(attempt, max_retries)
          THEN /\ result' = "Unmatched"
               /\ cpc' = "returned"
               /\ UNCHANGED <<attempt, slept>>
          ELSE /\ slept' = slept + SleepFor(backoff_sec, attempt)
               /\ IF attempt + 1 <= max_retries
                     THEN /\ attempt' = attempt + 1
                          /\ cpc' = "try"
                          /\ result' = NoneVal
                     ELSE \* range exhausted: falls off the end, returns None
                          /\ attempt' = attempt
                          /\ cpc' = "returned"
                          /\ result' = NoneVal
    /\ UNCHANGED <<max_retries, backoff_sec>>

\* A caller invoking classify_with_gpt with explicit retry arguments
CallWithArgs ==
    \E mr \in 0..MaxRetriesCfg, bo \in BackoffArgs : ClassifyCall(mr, bo)


\* ---- derived quantities of one call ----
Calls == Len(olog)
Fails == Cardinality({n \in 1..Len(olog) : olog[n] = <<FAIL>>})
Returned == cpc = "returned"

(***************************************************************************)
(* compile_transcripts.py: the Segmenter                                   *)
(* A speaker key is the token sequence of its literal, so that one key is  *)
(* a prefix of another exactly when its literal is.                        *)
(***************************************************************************)
INTERVIEWER_KEYS ==
    << <<"[Interviewer]", ":">>, <<"Interviewer", ":">>, <<"I", SP, ":">>, <<"I", ":">>,
       <<"I", "1", SP, ":">>, <<"I", "1", ":">>, <<"[Interviewer]">>,
       <<"I", SP, "-", SP>> >>

CORPORATOR_KEYS ==
    << <<"[Corporator]", ":">>, <<"Corporator", ":">>, <<"R", SP, ":">>, <<"R", ":">>,
       <<"Ex-Corporator", ":">>, <<"[Corporator]">>, <<"R", SP, "-", SP>> >>

META_FIELDS == << <<"Corporator Name">>, <<"Date">>, <<"Location">> >>

\* str.startswith
StartsWith(s, k) == Len(s) >= Len(k) /\ SubSeq(s, 1, Len(k)) = k

\* any(seg.startswith(k) for k in keys)
AnyKey(seg, keys) == \E n \in 1..Len(keys) : StartsWith(seg, keys[n])

\* the first kw in keys with seg.startswith(kw)
FirstKey(seg, keys) ==
    keys[CHOOSE n \in 1..Len(keys) :
            /\ StartsWith(seg, keys[n])
            /\ \A m \in 1..(n - 1) : ~StartsWith(seg, keys[m])]

\* seg[len(kw):].strip()
AfterKey(seg, kw) == Strip(SubSeq(seg, Len(kw) + 1, Len(seg)))

\* lines 114-124: the questions (keys = INTERVIEWER_KEYS, other = <<>>) or the
\* answers (keys = CORPORATOR_KEYS, other = INTERVIEWER_KEYS) of the segments
RECURSIVE Utterances(_, _, _)
Utterances(segments, keys, other) ==
    IF segments = <<>> THEN <<>>
    ELSE (IF ~AnyKey(Head(segments), other) /\ AnyKey(Head(segments), keys)
          THEN <<AfterKey(Head(segments), FirstKey(Head(segments), keys))>>
          ELSE <<>>)
         \o Utterances(Tail(segments), keys, other)

\* parse_qr_from_segments
parse_qr_from_segments(segments) ==
    [q |-> Utterances(segments, INTERVIEWER_KEYS, <<>>),
     r |-> Utterances(segments, CORPORATOR_KEYS, INTERVIEWER_KEYS),
     starts_with_corp |-> segments # <<>> /\ AnyKey(segments[1], CORPORATOR_KEYS)]

Max(a, b) == IF a >= b THEN a ELSE b

\* str(n) for n >= 0
RECURSIVE DigitsOf(_)
DigitsOf(n) ==
    IF n < 10 THEN <<(<<"0", "1", "2", "3", "4", "5", "6", "7", "8", "9">>)[n + 1]>>
    ELSE DigitsOf(n \div 10) \o DigitsOf(n % 10)

\* line 135: f"{'Q' if i % 2 == 0 else 'R'}_{(i//2)+1}" for i in range(2 * max_pairs)
SegHeaders(max_pairs) ==
    [n \in 1..(2 * max_pairs) |->
        <<IF (n - 1) % 2 = 0 THEN "Q" ELSE "R", "_">> \o DigitsOf(((n - 1) \div 2) + 1)]

\* seq[k] if k < len(seq) else ""   (k is a Python index)
ItemOrEmpty(seq, k) == IF k < Len(seq) THEN seq[k + 1] ELSE <<>>

\* (mutation) the answers are not shifted by the leading reply
RECURSIVE PairValues_Unshifted(_, _, _, _, _)
PairValues_Unshifted(questions, answers, swc, q_i, r_i) ==
    IF q_i < Len(questions) \/ r_i < Len(answers)
    THEN <<ItemOrEmpty(questions, q_i), ItemOrEmpty(answers, q_i)>>
         \o PairValues_Unshifted(questions, answers, swc, q_i + 1, r_i + 1)
    ELSE <<>>

\* lines 144-150: the while loop from (q_i, r_i)
RECURSIVE PairValues(_, _, _, _, _)
PairValues(questions, answers, swc, q_i, r_i) ==
    IF q_i < Len(questions) \/ r_i < Len(answers)
    THEN (IF ~(swc /\ q_i = 0 /\ r_i = 0)
          THEN <<ItemOrEmpty(questions, q_i), ItemOrEmpty(answers, r_i)>>
          ELSE <<>>)
         \o PairValues(questions, answers, swc, q_i + 1, r_i + 1)
    ELSE <<>>

\* lines 134-153 for the parsed (questions, answers, starts_with_corp)
CompiledRows(meta, p) ==
    << META_FIELDS \o SegHeaders(Max(Len(p.q), Len(p.r))),
       meta
         \o (IF p.starts_with_corp THEN << <<>>, ItemOrEmpty(p.r, 0) >> ELSE <<>>)
         \o PairValues(p.q, p.r, p.starts_with_corp,
                       0, IF p.starts_with_corp THEN 1 ELSE 0) >>

\* compile_one_file: [headers, values] of one interview
compile_one_file(meta, segments) == CompiledRows(meta, parse_qr_from_segments(segments))

\* main, lines 170-178: the rows of all files; the meta headers of every block
\* but the first are blanked
RECURSIVE AllRows(_, _)
AllRows(fs, n) ==
    IF n > Len(fs) THEN <<>>
    ELSE << IF n = 1 THEN compile_one_file(fs[n].meta, fs[n].segments)[1]
            ELSE << <<>>, <<>>, <<>> >>
                   \o SubSeq(compile_one_file(fs[n].meta, fs[n].segments)[1], 4,
                             Len(compile_one_file(fs[n].meta, fs[n].segments)[1])),
            compile_one_file(fs[n].meta, fs[n].segments)[2] >>
         \o AllRows(fs, n + 1)

\* a cell read by pandas as NaN (an empty cell of the sheet)
NaN == <<"<NaN>">>

RECURSIVE MaxLen(_)
MaxLen(rows) == IF rows = <<>> THEN 0 ELSE Max(Len(Head(rows)), MaxLen(Tail(rows)))

\* pd.DataFrame(rows).to_excel(..., header=False) followed by
\* pd.read_excel(..., header=None): short rows are padded and empty cells are NaN
ExcelRoundTrip(rows) ==
    [n \in 1..Len(rows) |->
        [c \in 1..MaxLen(rows) |->
            IF c > Len(rows[n]) \/ rows[n][c] = <<>> THEN NaN ELSE rows[n][c]]]

\* ---- the interviews given to the Segmenter ----
Utter == <<"u1", "u2", "u3", "u4", "u5", "u6", "u7", "u8", "u9">>

SegTags == { <<"I", ":">>, <<"R", ":">>, <<"[Corporator]">> }
\* the speaker tags of an interview that is compiled together with others
MultiFileTags == { <<>>, << <<"I", ":">> >>, << <<"R", ":">>, <<"I", ":">> >> }

\* the segments of an interview whose n-th speaker tag is tags[n]
SegmentsOf(tags) == [n \in 1..Len(tags) |-> tags[n] \o <<SP, Utter[n]>>]

FileMeta(n) == << <<"N">> \o DigitsOf(n), <<"2015">>, <<"Lucknow">> >>

FilesOf(tagss) ==
    [n \in 1..Len(tagss) |-> [meta |-> FileMeta(n), segments |-> SegmentsOf(tagss[n])]]

FileSets ==
    UNION { { FilesOf(<<tags>>) : tags \in [1..k -> SegTags] } : k \in 0..MaxSegs }
    \cup
    UNION { { FilesOf(tagss) : tagss \in [1..k -> MultiFileTags] } : k \in 2..MaxFiles }

\* ---- one document through compile_one_file ----
\* line 97: any(w.startswith(k) for k in keys), keys = INTERVIEWER_KEYS + CORPORATOR_KEYS
IsSpeakerWord(w) == AnyKey(w, INTERVIEWER_KEYS \o CORPORATOR_KEYS)

\* lines 98-99 and 103-104: if cur.strip(): segments.append(cur.strip())
Flush(acc, text) == IF Strip(text) # <<>> THEN Append(acc, Strip(text)) ELSE acc

\* lines 95-104: the loop over the words, then the last segment
RECURSIVE SplitLoop(_, _, _)
SplitLoop(toks, text, acc) ==
    IF toks = <<>> THEN Flush(acc, text)
    ELSE IF IsSpeakerWord(Head(toks))
         THEN SplitLoop(Tail(toks), Head(toks) \o <<SP>>, Flush(acc, text))
         ELSE SplitLoop(Tail(toks), text \o Head(toks) \o <<SP>>, acc)

\* split_speaker_segments, from the words of the document
split_speaker_segments(toks) == SplitLoop(toks, <<>>, <<>>)

\* the n-th word of a document: a speaker tag, an ordinary word, or a tag
\* with the first word of the utterance glued to it ("R:Hello")
WordKinds == {"I", "R", "C", "U", "RU"}

WordOf(kind, n) ==
    CASE kind = "I" -> <<"I", ":">>
      [] kind = "R" -> <<"R", ":">>
      [] kind = "C" -> <<"[Corporator]">>
      [] kind = "RU" -> <<"R", ":", Utter[n]>>
      [] OTHER -> <<Utter[n]>>

DocOf(kinds) == [n \in 1..Len(kinds) |-> WordOf(kinds[n], n)]

Docs == UNION { { DocOf(kinds) : kinds \in [1..k -> WordKinds] } : k \in 0..MaxWords }

SegmenterIdle ==
    /\ doc_tokens = <<>>
    /\ segs = <<>>
    /\ qr = [q |-> <<>>, r |-> <<>>, starts_with_corp |-> FALSE]
    /\ compiled = <<>>
    /\ spc = "idle"

\* lines 91-92: the words of the document
S_Read ==
    /\ spc = "idle"
    /\ \E d \in Docs : doc_tokens' = d
    /\ spc' = "tokens"
    /\ UNCHANGED <<segs, qr, compiled>>

\* line 131: segments = split_speaker_segments(doc)
S_Split ==
    /\ spc = "tokens"
    /\ segs' = split_speaker_segments(doc_tokens)
    /\ spc' = "segments"
    /\ UNCHANGED <<doc_tokens, qr, compiled>>

\* line 132: questions, answers, starts_with_corp = parse_qr_from_segments(segments)
S_Parse ==
    /\ spc = "segments"
    /\ qr' = parse_qr_from_segments(segs)
    /\ spc' = "parsed"
    /\ UNCHANGED <<doc_tokens, segs, compiled>>

\* lines 134-153: the header row and the content row
S_Build ==
    /\ spc = "parsed"
    /\ compiled' = CompiledRows(FileMeta(1), qr)
    /\ spc' = "compiled"
    /\ UNCHANGED <<doc_tokens, segs, qr>>

(***************************************************************************)
(* label_with_context.py: process_file                                     *)
(* i and col are Python (0-based) indices.                                 *)
(***************************************************************************)
\* pd.notna
NotNa(cell) == cell # NaN

\* str(cell) of a cell of the data frame
Str(cell) == IF cell = NaN THEN <<"nan">> ELSE cell

\* row[k] for a Python index k
At(row, k) == row[k + 1]

\* parse_header of label_with_context.py: (kind, idx, label)
\* (text is bound to its value once, as the local variable of line 176 is)
P_parse_header(cell_val) ==
    CHOOSE m \in { HEADER_RE(text) : text \in {ReplaceNBSP(Strip(Str(cell_val)))} } : TRUE

\* kind of the header cell at Python index k
KindOf(headers, k) == P_parse_header(At(headers, k)).kind

\* str(row_vals[k]).strip() if k < len(row_vals) and pd.notna(row_vals[k]) else ""
TextAt(row_vals, k) ==
    IF k < Len(row_vals) /\ NotNa(At(row_vals, k)) THEN Strip(Str(At(row_vals, k))) ELSE <<>>

\* (mutation) the search runs from column 3 to the right
BackToQ_Farthest(headers, back) ==
    IF \E c \in 3..back : KindOf(headers, c) = "Q"
    THEN CHOOSE c \in 3..back :
            /\ KindOf(headers, c) = "Q"
            /\ \A d \in 3..(c - 1) : KindOf(headers, d) # "Q"
    ELSE -1

\* lines 234-240: the nearest Q column at or before `back`, not left of column 3
RECURSIVE BackToQ(_, _)
BackToQ(headers, back) ==
    IF back < 3 THEN -1
    ELSE IF KindOf(headers, back) = "Q" THEN back ELSE BackToQ(headers, back - 1)

\* lines 244-250: the nearest R column at or after `fwd`
RECURSIVE FwdToR(_, _)
FwdToR(headers, fwd) ==
    IF fwd >= Len(headers) THEN -1
    ELSE IF KindOf(headers, fwd) = "R" THEN fwd ELSE FwdToR(headers, fwd + 1)

TextAtOrEmpty(row_vals, k) == IF k < 0 THEN <<>> ELSE TextAt(row_vals, k)

\* lines 229-258: the arguments of the classify_with_gpt call for column c
\* (back and fwd are the values the two searches stop at, -1 when they fail)
CallArgs(headers, row_vals, c) ==
    CHOOSE args \in { [question |-> TextAt(row_vals, c),
                       prev_question |-> TextAtOrEmpty(row_vals, back),
                       next_response |-> TextAtOrEmpty(row_vals, fwd)]
                        : back \in {BackToQ(headers, c - 1)},
                          fwd \in {FwdToR(headers, c + 1)} } : TRUE

NoCall == [question |-> <<>>, prev_question |-> <<>>, next_response |-> <<>>]

\* a column name without its label code: f"Q_{q_counter}"
ColName_NoLabel(kind, counter, label_code) == <<kind, "_">> \o DigitsOf(counter)

\* lines 261-262: f"Q_{q_counter}_{label_code}" (a None label prints as "None")
ColName(kind, counter, label_code) ==
    <<kind, "_">> \o DigitsOf(counter)
                  \o <<"_", IF label_code = NoneVal THEN "None" ELSE label_code>>

\* lines 266-267: row_vals[k] if k < len(row_vals) else ""
ValAt(row_vals, k) == IF k < Len(row_vals) THEN At(row_vals, k) ELSE <<>>

\* (mutation) the last complete record is not processed
HasRecord_DropsLast(idx, n) == idx + 2 < n

\* lines 200-202: "for i in range(0, len(df), 2)" has a complete record at i
HasRecord(idx, n) == idx < n /\ ~(idx + 1 >= n)

\* ---- the input tables ----
\* the text of a header cell Kind_Index_Label
HdrCell(kind, idx, label) == <<kind, "_">> \o idx \o <<"_", label>>

PCells ==
    { HdrCell("Q", <<"1">>, "Intro"), HdrCell("R", <<"1">>, "Intro"), <<"note">>, NaN }

MultiRecCells == { HdrCell("Q", <<"7">>, "Thanks"), HdrCell("R", <<"7">>, "Thanks") }

\* the text of the content cell of record n at column c (1-based)
CellText(n, c) == <<"c">> \o DigitsOf(n) \o <<"_">> \o DigitsOf(c)

RecHeaderRow(n, h) ==
    (IF n = 1 THEN META_FIELDS ELSE <<NaN, NaN, NaN>>) \o h

\* the content row of record n; the second column after the metadata of the
\* first record is an empty cell
RecContentRow(n, w) ==
    FileMeta(n) \o [c \in 1..w |-> IF n = 1 /\ c = 2 THEN NaN ELSE CellText(n, c + 3)]

\* a header row that no content row follows
DanglingRow(w) == META_FIELDS \o [c \in 1..w |-> HdrCell("Q", <<"9">>, "Intro")]

\* the table of the records with header cells hs[1], hs[2], ... ; when dangling,
\* a last header row without content row follows
TableOf(hs, w, dangling) ==
    [k \in 1..(2 * Len(hs) + (IF dangling THEN 1 ELSE 0)) |->
        IF k % 2 = 1
        THEN (IF (k + 1) \div 2 <= Len(hs)
              THEN RecHeaderRow((k + 1) \div 2, hs[(k + 1) \div 2])
              ELSE DanglingRow(w))
        ELSE RecContentRow(k \div 2, w)]

Tables ==
    UNION { UNION { { TableOf(hs, w, d) : hs \in [1..n -> [1..w -> PCells]] }
                    : d \in BOOLEAN }
            : <<w, n>> \in (0..MaxCols) \X (0..1) }
    \cup
    UNION { UNION { { TableOf(hs, 1, d) : hs \in [1..n -> [1..1 -> MultiRecCells]] }
                    : d \in BOOLEAN }
            : n \in 2..MaxRecords }

NoFiles == <<>>

ProcessIdle ==
    /\ files = NoFiles
    /\ df = <<>>
    /\ i = 0
    /\ col = 0
    /\ q_counter = 0
    /\ new_headers = <<>>
    /\ new_content = <<>>
    /\ out_rows = <<>>
    /\ classified = <<>>
    /\ call = NoCall
    /\ output = <<>>
    /\ ppc = "idle"

\* line 197: df = pd.read_excel(input_path, header=None), of a hand-made table
P_ReadTable ==
    /\ ppc = "idle"
    /\ \E t \in Tables : df' = t
    /\ files' = NoFiles
    /\ i' = 0
    /\ out_rows' = <<>>
    /\ ppc' = "rows"
    /\ UNCHANGED <<col, q_counter, new_headers, new_content, classified, call, output>>

\* line 197: df = pd.read_excel(input_path, header=None), of the sheet that
\* compile_transcripts.py wrote for some interviews
P_ReadCompiled ==
    /\ ppc = "idle"
    /\ \E fs \in FileSets :
          /\ files' = fs
          /\ df' = ExcelRoundTrip(AllRows(fs, 1))
    /\ i' = 0
    /\ out_rows' = <<>>
    /\ ppc' = "rows"
    /\ UNCHANGED <<col, q_counter, new_headers, new_content, classified, call, output>>

\* lines 200-219: the next record starts
P_Record ==
    /\ ppc = "rows"
    /\ HasRecord(i, Len(df))
    /\ new_headers' = SubSeq(At(df, i), 1, 3)
    /\ new_content' = SubSeq(At(df, i + 1), 1, 3)
    /\ q_counter' = 1
    /\ col' = 3
    /\ ppc' = "cols"
    /\ UNCHANGED <<files, df, i, out_rows, classified, call, output>>

\* lines 220-227: the header at col is not a question
P_Skip ==
    /\ ppc = "cols"
    /\ col < Len(At(df, i))
    /\ KindOf(At(df, i), col) # "Q"
    /\ col' = col + 1
    /\ UNCHANGED <<files, df, i, q_counter, new_headers, new_content, out_rows,
                   classified, call, output, ppc>>

\* lines 220-258: the header at col is a question; classify_with_gpt is called
\* with the default retry arguments
P_Classify ==
    /\ ppc = "cols"
    /\ col < Len(At(df, i))
    /\ KindOf(At(df, i), col) = "Q"
    /\ call' = CallArgs(At(df, i), At(df, i + 1), col)
    /\ classified' = Append(classified, <<i, col>>)
    /\ ClassifyCall(DEFAULT_MAX_RETRIES, DEFAULT_BACKOFF)
    /\ ppc' = "call"
    /\ UNCHANGED <<files, df, i, col, q_counter, new_headers, new_content, out_rows,
                   output>>

\* lines 253-273: classify_with_gpt has returned label_code
P_Labeled ==
    /\ ppc = "call"
    /\ cpc = "returned"
    /\ new_headers' = new_headers \o << ColName("Q", q_counter, result),
                                        ColName("R", q_counter, result) >>
    /\ new_content' = new_content \o << ValAt(At(df, i + 1), col),
                                        ValAt(At(df, i + 1), col + 1) >>
    /\ q_counter' = q_counter + 1
    /\ col' = col + 2
    /\ max_retries' = DEFAULT_MAX_RETRIES
    /\ backoff_sec' = DEFAULT_BACKOFF
    /\ attempt' = 0
    /\ olog' = <<>>
    /\ slept' = 0
    /\ result' = NoneVal
    /\ cpc' = "idle"
    /\ ppc' = "cols"
    /\ UNCHANGED <<files, df, i, out_rows, classified, call, output>>

\* lines 220 and 276-277: the row is exhausted; the two-row block is stored
P_EndRecord ==
    /\ ppc = "cols"
    /\ ~(col < Len(At(df, i)))
    /\ out_rows' = out_rows \o <<new_headers, new_content>>
    /\ i' = i + 2
    /\ ppc' = "rows"
    /\ UNCHANGED <<files, df, col, q_counter, new_headers, new_content, classified,
                   call, output>>

\* lines 200-202 and 279: no complete record is left; the output is written
P_Write ==
    /\ ppc = "rows"
    /\ ~HasRecord(i, Len(df))
    /\ output' = out_rows
    /\ ppc' = "done"
    /\ UNCHANGED <<files, df, i, col, q_counter, new_headers, new_content, out_rows,
                   classified, call>>

\* Replies of the oracle while process_file runs
ProcessReplies == { <<"Intro">>, <<SP, "Thanks", SP, "x">> }

(***************************************************************************)
(* check_labels.py: the Validator                                          *)
(***************************************************************************)
\* MAIN_LABELS of check_labels.py
MAIN_LABELS ==
    { "Intro", "Current_Status", "Wife_Or_You", "End_Year", "Daily_Tasks",
      "Ward_Languages", "Mother_Tongue", "Other_Lang_Spoken", "Other_Lang_Understood",
      "Hindi_Dialects", "Hindi_Dialect_Differences", "Correct_Hindi",
      "Dialect_Job_Impact", "Dialect_Constituents_1on1_Impact",
      "Dialect_Constituents_Groups_Impact",
      "Dialect_Corp_Impact", "Dialect_Leaders_Impact", "Dialect_Choice_Example",
      "Dialect_Choice_Grievance", "Dialect_Choice_Campaigning", "Dialect_Choice_Meetings",
      "Dialect_Choice_Bureaucrats", "Dialect_Choice_Other", "Dialect_Choice_Multiple",
      "Unmatched", "Thanks" }

\* (mutation) the sentinel is missing from the Validator's label set
MainLabelTest_NoSentinel(label) ==
    Len(label) = 1 /\ label[1] \in (MAIN_LABELS \ {"Unmatched"})

\* line 107: "label in MAIN_LABELS" for a token sequence
MainLabelTest(label) == Len(label) = 1 /\ label[1] \in MAIN_LABELS

\* a cell whose value is None (openpyxl: empty cell)
NoneCell == <<NoneVal>>

\* Python truthiness of a cell value: not None and not ""
Truthy(val) == val # NoneCell /\ val # <<>>

\* the answer of a failed match / a non-header cell
NoHeader(pe) ==
    [kind |-> NoneVal, idx |-> <<>>, label |-> <<>>, parse_error |-> pe]

\* HEADER_RE.match(text) of check_labels.py (the same pattern as the Classifier's)
V_HEADER_RE(text) == HEADER_RE(text)

\* '"\t" in text' / '"R_" in text'
Contains(s, t) == \E n \in 1..Len(s) : s[n] = t
ContainsPair(s, a, b) == \E n \in 1..(Len(s) - 1) : s[n] = a /\ s[n + 1] = b

\* text.split("\t")[0]
RECURSIVE BeforeTab(_)
BeforeTab(s) ==
    IF s = <<>> \/ Head(s) = TAB THEN <<>> ELSE <<Head(s)>> \o BeforeTab(Tail(s))

\* line 52: jammed header detection
Jammed(text) ==
    \/ Contains(text, TAB) /\ ContainsPair(text, "R", "_")
    \/ Contains(text, TAB) /\ ContainsPair(text, "Q", "_")

\* lines 56-63: the match and the label normalisation
V_parsed(m, pe) ==
    IF ~m.ok
    THEN NoHeader(pe)
    ELSE [kind |-> m.kind, idx |-> m.idx,
          label |-> ReplaceNBSP(Strip(m.label)), parse_error |-> pe]

\* lines 48-54: the text that is matched
V_text(text0) == IF Jammed(text0) THEN Strip(BeforeTab(text0)) ELSE text0

\* parse_header of check_labels.py
V_parse_header(cell_value) ==
    IF cell_value = NoneCell
    THEN NoHeader(FALSE)
    ELSE V_parsed(V_HEADER_RE(V_text(Strip(cell_value))), Jammed(Strip(cell_value)))

\* defaultdict(int): errors[k] += 1
Incr(e, k) ==
    [x \in (DOMAIN e) \cup {k} |->
        IF x = k THEN (IF k \in DOMAIN e THEN e[k] + 1 ELSE 1) ELSE e[x]]

\* dict: d[k] = v
Put(d, k, v) == [x \in (DOMAIN d) \cup {k} |-> IF x = k THEN v ELSE d[x]]

EmptyDict == [x \in {} |-> 0]

\* dict.get(k, 0)
Get0(d, k) == IF k \in DOMAIN d THEN d[k] ELSE 0

\* cell.fill = RED, done by check `why`
Fill(st, r, c, why) == [st EXCEPT !.fills = @ \cup {<<r, c, why>>}]

\* lines 92-99: alternation check
V_alternation(st, r, c, row, h) ==
    IF st.prev_kind = h.kind
    THEN [st EXCEPT
            !.errors = Incr(@, "alternation"),
            !.fills = @ \cup {<<r, c, "alternation">>}
                        \cup (IF Truthy(row[c - 1])
                              THEN {<<r, c - 1, "alternation">>} ELSE {}),
            !.prev_kind = h.kind]
    ELSE [st EXCEPT !.prev_kind = h.kind]

\* lines 102-104: embedded artifacts
V_embedded(st, r, c, h) ==
    IF h.parse_error
    THEN Fill([st EXCEPT !.errors = Incr(@, "embedded")], r, c, "embedded")
    ELSE st

\* lines 107-109: label validity
V_label(st, r, c, h) ==
    IF ~MainLabelTest(h.label)
    THEN Fill([st EXCEPT !.errors = Incr(@, "unknown_label")], r, c, "unknown_label")
    ELSE st

\* lines 112-115: collect for the Q/R mismatch check
V_collect(st, c, h) ==
    IF h.kind = "Q"
    THEN [st EXCEPT !.q_pos = Put(@, h.idx, [col |-> c, label |-> h.label])]
    ELSE [st EXCEPT !.r_pos = Put(@, h.idx, [col |-> c, label |-> h.label])]

\* lines 86-115: a cell that holds text
V_header(st, r, c, row, h) ==
    IF h.kind = NoneVal
    THEN st
    ELSE V_collect(
           V_label(
             V_embedded(
               V_alternation([st EXCEPT !.total = @ + 1], r, c, row, h),
               r, c, h),
             r, c, h),
           c, h)

\* lines 80-115: the body of the column loop for column c of header row r
V_cell(st, r, c, row) ==
    IF ~Truthy(row[c]) \/ Strip(row[c]) = <<>>
    THEN st
    ELSE V_header(st, r, c, row, V_parse_header(row[c]))

\* line 79: for c in range(4, max_col + 1)
RECURSIVE V_cols(_, _, _, _, _)
V_cols(st, r, c, max_col, row) ==
    IF c > max_col THEN st ELSE V_cols(V_cell(st, r, c, row), r, c + 1, max_col, row)

\* lines 119-124: one index present in both maps
V_pair(st, r, q, p) ==
    IF q.label # p.label
    THEN [st EXCEPT
            !.errors = Incr(@, "qr_mismatch"),
            !.fills = @ \cup {<<r, q.col, "qr_mismatch">>, <<r, p.col, "qr_mismatch">>}]
    ELSE st

PickOne(S) == CHOOSE x \in S : TRUE

\* line 118: for idx in set(q_pos) & set(r_pos)
RECURSIVE V_mismatch(_, _, _)
V_mismatch(st, r, idxs) ==
    IF idxs = {} THEN st
    ELSE V_mismatch(V_pair(st, r, st.q_pos[PickOne(idxs)], st.r_pos[PickOne(idxs)]),
                    r, idxs \ {PickOne(idxs)})

\* lines 75-79: the row's scan starts with empty maps and no previous kind
V_rowstart(errs, total, fl) ==
    [prev_kind |-> NoneVal, q_pos |-> EmptyDict, r_pos |-> EmptyDict,
     errors |-> errs, total |-> total, fills |-> fl]

V_common(st) == (DOMAIN st.q_pos) \cap (DOMAIN st.r_pos)

V_rowend(st, r) == V_mismatch(st, r, V_common(st))

\* lines 75-124: one iteration of the header-row loop
V_row(errs, total, fl, r, sheet) ==
    V_rowend(V_cols(V_rowstart(errs, total, fl), r, 4, Len(sheet[r]), sheet[r]), r)

\* sum(errors.values())
RECURSIVE SumValues(_, _)
SumValues(d, ks) ==
    IF ks = {} THEN 0 ELSE d[PickOne(ks)] + SumValues(d, ks \ {PickOne(ks)})

NoReport == [total_header_cells_examined |-> 0, error_counts |-> EmptyDict,
             total_errors |-> 0]

ValidatorIdle ==
    /\ ws = <<>>
    /\ vrow = 1
    /\ errors = EmptyDict
    /\ total_headers = 0
    /\ fills = {}
    /\ report = NoReport
    /\ vpc = "idle"

\* ---- the sheets given to check_sheet ----
MetaHeader == << <<"Name">>, <<"Date">>, <<"Location">> >>
MetaValues == << <<"A">>, <<"2015">>, <<"Lucknow">> >>

ValCells ==
    { NoneCell,
      HdrCell("Q", <<"1">>, "Intro"),
      HdrCell("R", <<"1">>, "Intro"),
      HdrCell("R", <<"1">>, "Thanks"),
      HdrCell("Q", <<"1">>, "Thanks"),
      HdrCell("R", <<"0", "1">>, "Thanks"),
      HdrCell("Q", <<"2">>, "Unmatched"),
      HdrCell("R", <<"2">>, "Bogus"),
      <<"note">>,
      <<SP>>,
      <<"Q", "_", "1">>,
      <<SP, "Q", SP, "_", "1", SP, "_", SP, "Daily_Tasks", NBSP>>,
      HdrCell("Q", <<"2">>, "Intro") \o <<TAB>> \o HdrCell("R", <<"2">>, "Intro") }

MultiRowCells ==
    { HdrCell("Q", <<"1">>, "Intro"), HdrCell("R", <<"1">>, "Thanks") }

\* cells with a tab: text before a header, text after a header, no header at
\* all, a tab in front of a header; and a clean header
JamCells ==
    { <<"note", TAB>> \o HdrCell("Q", <<"1">>, "Intro"),
      HdrCell("Q", <<"1">>, "Intro") \o <<TAB, "x">>,
      <<"a", TAB, "b">>,
      <<TAB>> \o HdrCell("R", <<"1">>, "Intro"),
      HdrCell("R", <<"1">>, "Intro") }

ContentRow(w) == MetaValues \o [n \in 1..w |-> <<"x">>]

\* a sheet of n header rows, each followed by a content row (the last content
\* row is absent when ~paired)
SheetOf(hs, paired) ==
    [n \in 1..(2 * Len(hs) - (IF paired THEN 0 ELSE 1)) |->
        IF n % 2 = 1 THEN MetaHeader \o hs[(n + 1) \div 2]
        ELSE ContentRow(Len(hs[n \div 2]))]

Sheets ==
    UNION { { SheetOf(<<h>>, TRUE) : h \in [1..w -> ValCells] } : w \in 0..MaxValCols }
    \cup
    UNION { UNION { { SheetOf(hs, p) : hs \in [1..n -> [1..w -> MultiRowCells]] }
                    : p \in BOOLEAN }
            : <<w, n>> \in (1..MaxValCols) \X (2..MaxValRows) }
    \cup
    UNION { { SheetOf(<<h>>, TRUE) : h \in [1..w -> JamCells] } : w \in 1..2 }

\* check_sheet is called: load_workbook(input_path)
V_Load ==
    /\ vpc = "idle"
    /\ \E sheet \in Sheets : ws' = sheet
    /\ vrow' = 1
    /\ errors' = EmptyDict
    /\ total_headers' = 0
    /\ fills' = {}
    /\ vpc' = "scan"
    /\ UNCHANGED report

\* lines 74-124: one header row is scanned
V_CheckRow ==
    /\ vpc = "scan"
    /\ vrow <= Len(ws)
    /\ LET st == V_row(errors, total_headers, fills, vrow, ws) IN
          /\ errors' = st.errors
          /\ total_headers' = st.total
          /\ fills' = st.fills
    /\ vrow' = vrow + 2
    /\ UNCHANGED <<ws, report, vpc>>

\* lines 126-135: the workbook is saved and the report built
V_Save ==
    /\ vpc = "scan"
    /\ vrow > Len(ws)
    /\ report' = [total_header_cells_examined |-> total_headers,
                  error_counts |-> errors,
                  total_errors |-> SumValues(errors, DOMAIN errors)]
    /\ vpc' = "saved"
    /\ UNCHANGED <<ws, vrow, errors, total_headers, fills>>


(***************************************************************************)
(* check_labels.py: compute_improvement                                    *)
(* A float rounded to two decimals is modelled by its number of            *)
(* hundredths (60.0 is 6000); None is [null |-> TRUE].                     *)
(***************************************************************************)
\* (mutation) the quotient is truncated instead of rounded
RoundDiv_Floor(n, d) == n \div d

\* The float x = fl(p / dd) the division yields, p >= 1 and dd odd: x has 53
\* significant bits. BitsBelow and BitsAbove give floor(log2(p / dd)).
RECURSIVE BitsBelow(_, _)
BitsBelow(p, dd) == IF p >= dd THEN 0 ELSE 1 + BitsBelow(2 * p, dd)

RECURSIVE BitsAbove(_, _)
BitsAbove(p, m) == IF 2 * m <= p THEN 1 + BitsAbove(p, 2 * m) ELSE 0

FloorLog2(p, dd) == IF p >= dd THEN BitsAbove(p, dd) ELSE -BitsBelow(p, dd)

\* 2^e mod m
RECURSIVE PowMod(_, _)
PowMod(e, m) == IF e = 0 THEN 1 % m ELSE (2 * PowMod(e - 1, m)) % m

\* the remainder that the 53-bit significand of p / dd leaves: of
\* p * 2^(52 - floor(log2(p / dd))) divided by dd
FloatRem(p, dd) == ((p % dd) * PowMod(52 - FloorLog2(p, dd), dd)) % dd

\* the float nearest to p / dd is above p / dd (dd odd: it is never a tie)
FloatAbove(p, dd) == 2 * FloatRem(p, dd) > dd

\* round(x, 2) of the float x = (2q + 1) / 200, a decimal tie between q and
\* q + 1 hundredths. odd = 2q + 1. When 25 divides odd, x = (odd / 25) / 8 is
\* a float and round() takes the even neighbour; otherwise the division
\* has rounded x to the float just above or below the tie and round()
\* follows the float.
RoundTie(q, odd) ==
    IF odd % 25 = 0 THEN (IF q % 2 = 0 THEN q ELSE q + 1)
    ELSE IF odd % 5 = 0 THEN (IF FloatAbove(odd \div 5, 5) THEN q + 1 ELSE q)
    ELSE (IF FloatAbove(odd, 25) THEN q + 1 ELSE q)

\* round(a / d, 2 decimals) in hundredths, for a >= 0 and d > 0
RoundAbs(a, d) ==
    IF 2 * (a % d) < d THEN a \div d
    ELSE IF 2 * (a % d) > d THEN (a \div d) + 1
    ELSE RoundTie(a \div d, 2 * (a \div d) + 1)

\* round(x, 2) of the float x = n / (100 * d), d > 0, in hundredths: the
\* nearest number of hundredths to the float (division and round() are
\* symmetric in the sign)
RoundDiv(n, d) == IF n >= 0 THEN RoundAbs(n, d) ELSE -RoundAbs(-n, d)

NullPct == [null |-> TRUE, h |-> 0]

\* lines 145 and 153: round((b - c) * 100.0 / b, 2) if b > 0 else None
PercentFixed(b, c) ==
    IF b > 0 THEN [null |-> FALSE, h |-> RoundDiv((b - c) * 10000, b)] ELSE NullPct

\* compute_improvement(current_report, baseline_report)
compute_improvement(current_report, baseline_report) ==
    [overall_percent_fixed |->
        PercentFixed(baseline_report.total_errors, current_report.total_errors),
     per_type_percent_fixed |->
        [k \in (DOMAIN baseline_report.error_counts)
                 \cup (DOMAIN current_report.error_counts) |->
            PercentFixed(Get0(baseline_report.error_counts, k),
                         Get0(current_report.error_counts, k))]]

\* the error_counts of the reports compared: any of TypeKeys may be absent
TypeKeys == {"alternation", "qr_mismatch"}

TypeCounts ==
    UNION { [ks -> 0..MaxTypeCount] : ks \in SUBSET TypeKeys }

\* error totals of long sheets, where (b - c) * 100 / b can be a decimal tie
\* x.xx5: of 32 a float (3.125), of 4000 and 20000 not (0.025, 0.075, 0.005)
TieTotals == {31, 32, 3997, 3999, 4000, 4001, 19999, 20000}

TieReports ==
    { [total_header_cells_examined |-> 0,
       error_counts |-> [k \in {"alternation"} |-> t],
       total_errors |-> t] : t \in TieTotals }

Reports ==
    { [total_header_cells_examined |-> 0, error_counts |-> ec, total_errors |-> t]
        : ec \in TypeCounts, t \in 0..MaxTotal }
    \cup TieReports

NoImprovement ==
    [overall_percent_fixed |-> NullPct, per_type_percent_fixed |-> EmptyDict]

ImproveIdle ==
    /\ current = NoReport
    /\ baseline = NoReport
    /\ improvement = NoImprovement
    /\ ipc = "idle"

\* main, lines 182-187: a baseline report is read and compared
I_Compare ==
    /\ ipc = "idle"
    /\ \E cur \in Reports, base \in Reports :
          /\ current' = cur
          /\ baseline' = base
          /\ improvement' = compute_improvement(cur, base)
    /\ ipc' = "done"

(***************************************************************************)
(* label_with_context.py: import of the module, and the labeled sheet as   *)
(* check_labels.py loads it                                                *)
(***************************************************************************)
\* "if not api_key"
NoKey(key) == key \in {NoneVal, ""}

\* (mutation) the legacy fallback does not test the key
get_openai_client_NoKeyCheck(key, pkg) ==
    IF pkg = "new" /\ ~NoKey(key) THEN "new"
    ELSE IF pkg = "absent" THEN FAIL
    ELSE "legacy"

\* _get_openai_client: the CLIENT_MODE it returns, FAIL when it raises.
\* With the new SDK and no key the RuntimeError of line 80 is caught at line
\* 82, and the fallback raises it again at line 87; without the new SDK the
\* ImportError of line 77 is caught and "import openai" decides.
get_openai_client(key, pkg) ==
    IF pkg = "new" /\ ~NoKey(key) THEN "new"
    ELSE IF pkg = "absent" THEN FAIL
    ELSE IF NoKey(key) THEN FAIL
    ELSE "legacy"

Keys == {NoneVal, "", "sk-test"}
Packages == {"new", "legacy", "absent"}

\* the module has been imported with a key and the new SDK
Imported ==
    /\ api_key = "sk-test"
    /\ sdk = "new"
    /\ CLIENT_MODE = "new"

\* the module has not been imported yet
NotImported ==
    /\ api_key \in Keys
    /\ sdk \in Packages
    /\ CLIENT_MODE = NoneVal

\* line 91: CLIENT, CLIENT_MODE = _get_openai_client()
M_Import ==
    /\ CLIENT_MODE = NoneVal
    /\ CLIENT_MODE' = get_openai_client(api_key, sdk)
    /\ UNCHANGED <<api_key, sdk>>

\* main() runs only when the import did not raise
Usable == CLIENT_MODE \in {"new", "legacy"}

\* pd.DataFrame(out_rows).to_excel(...) read back by load_workbook: the rows
\* are padded to one width; padding, NaN and "" are cells without a value
LabeledSheet(rows) ==
    [n \in 1..Len(rows) |->
        [c \in 1..MaxLen(rows) |->
            IF c > Len(rows[n]) \/ rows[n][c] \in {<<>>, NaN} THEN NoneCell
            ELSE rows[n][c]]]

\* check_sheet is called on the file that process_file wrote
V_LoadOutput ==
    /\ vpc = "idle"
    /\ ppc = "done"
    /\ ws' = LabeledSheet(output)
    /\ vrow' = 1
    /\ errors' = EmptyDict
    /\ total_headers' = 0
    /\ fills' = {}
    /\ vpc' = "scan"
    /\ UNCHANGED report

(***************************************************************************)
(* Specifications                                                          *)
(***************************************************************************)
\* SPECS-BEGIN
AllIdle == CallIdle /\ ProcessIdle /\ ValidatorIdle /\ ImproveIdle /\ SegmenterIdle /\ Imported

InitClassify == AllIdle

NextClassify ==
    \/ CallWithArgs /\ UNCHANGED <<pvars, vvars, ivars, svars, mvars>>
    \/ OracleReturns(OracleTexts) /\ UNCHANGED <<pvars, vvars, ivars, svars, mvars>>
    \/ OracleRaises /\ UNCHANGED <<pvars, vvars, ivars, svars, mvars>>

SpecClassify == InitClassify /\ [][NextClassify]_vars

InitProcess == AllIdle

NextProcess ==
    \/ P_ReadTable /\ UNCHANGED <<cvars, vvars, ivars, svars, mvars>>
    \/ P_ReadCompiled /\ UNCHANGED <<cvars, vvars, ivars, svars, mvars>>
    \/ P_Record /\ UNCHANGED <<cvars, vvars, ivars, svars, mvars>>
    \/ P_Skip /\ UNCHANGED <<cvars, vvars, ivars, svars, mvars>>
    \/ P_Classify /\ UNCHANGED <<vvars, ivars, svars, mvars>>
    \/ (ppc = "call" /\ OracleReturns(ProcessReplies)) /\ UNCHANGED <<pvars, vvars, ivars, svars, mvars>>
    \/ (ppc = "call" /\ OracleRaises) /\ UNCHANGED <<pvars, vvars, ivars, svars, mvars>>
    \/ P_Labeled /\ UNCHANGED <<vvars, ivars, svars, mvars>>
    \/ P_EndRecord /\ UNCHANGED <<cvars, vvars, ivars, svars, mvars>>
    \/ P_Write /\ UNCHANGED <<cvars, vvars, ivars, svars, mvars>>

\* process_file runs on one thread and every oracle call returns or raises, so
\* a step that is possible is eventually taken
SpecProcess == InitProcess /\ [][NextProcess]_vars /\ WF_vars(NextProcess)

InitValidate == AllIdle

NextValidate ==
    \/ V_Load /\ UNCHANGED <<cvars, pvars, ivars, svars, mvars>>
    \/ V_CheckRow /\ UNCHANGED <<cvars, pvars, ivars, svars, mvars>>
    \/ V_Save /\ UNCHANGED <<cvars, pvars, ivars, svars, mvars>>

SpecValidate == InitValidate /\ [][NextValidate]_vars

InitImprove == AllIdle

NextImprove == I_Compare /\ UNCHANGED <<cvars, pvars, vvars, svars, mvars>>

SpecImprove == InitImprove /\ [][NextImprove]_vars
InitSegment == AllIdle

NextSegment ==
    \/ S_Read /\ UNCHANGED <<cvars, pvars, vvars, ivars, mvars>>
    \/ S_Split /\ UNCHANGED <<cvars, pvars, vvars, ivars, mvars>>
    \/ S_Parse /\ UNCHANGED <<cvars, pvars, vvars, ivars, mvars>>
    \/ S_Build /\ UNCHANGED <<cvars, pvars, vvars, ivars, mvars>>

SpecSegment == InitSegment /\ [][NextSegment]_vars
\* a whole run: the import, then process_file, then check_sheet on its output
InitRun == CallIdle /\ ProcessIdle /\ ValidatorIdle /\ ImproveIdle /\ SegmenterIdle /\ NotImported

\* python label_with_context.py: the import, then main() calls process_file
Classifier ==
    \/ M_Import /\ UNCHANGED <<cvars, pvars, vvars, ivars, svars>>
    \/ Usable /\ NextProcess

NextRun ==
    \/ Classifier
    \/ V_LoadOutput /\ UNCHANGED <<cvars, pvars, ivars, svars, mvars>>
    \/ (ppc = "done" /\ V_CheckRow) /\ UNCHANGED <<cvars, pvars, ivars, svars, mvars>>
    \/ (ppc = "done" /\ V_Save) /\ UNCHANGED <<cvars, pvars, ivars, svars, mvars>>

\* the Classifier process runs on one thread to its end; check_labels.py is a
\* second program that the user may start afterwards
SpecRun == InitRun /\ [][NextRun]_vars /\ WF_vars(Classifier)
\* SPECS-END

(***************************************************************************)
(* Claims about classify_with_gpt (checked under SpecClassify)             *)
(***************************************************************************)
AllAttemptsFailed == Returned /\ Calls >= 1 /\ Fails = Calls

\* C1: for every max_retries >= 0 and every sequence of oracle outcomes, the
\* value returned by classify_with_gpt is a member of LABEL_CODES: never
\* None/empty and never containing whitespace.
C1_ResultInTaxonomy ==
    Returned =>
        /\ result \in LABEL_SET
        /\ result \notin {NoneVal, ""}
        /\ ~IsWS(result)

\* C2: retry policy of one call, for every max_retries the caller passes: the
\* oracle is invoked at least once and at most max_retries times; an attempt
\* is made only after every earlier attempt failed; the call returns at the
\* first attempt that does not fail, with that reply decoded (an Unmatched
\* reply is not retried); when every attempt fails it returns Unmatched,
\* having raised nothing.
C2_RetryPolicy ==
    /\ cpc = "try" =>
          /\ Fails = Calls
          /\ attempt = Calls + 1
          /\ Calls < max_retries
    /\ Returned =>
          /\ 1 <= Calls /\ Calls <= max_retries
          /\ result # NoneVal
          /\ \A n \in 1..(Calls - 1) : olog[n] = <<FAIL>>
          /\ olog[Calls] # <<FAIL>> => result = DecodeReply(olog[Calls])
          /\ olog[Calls] = <<FAIL>> =>
                /\ Calls = max_retries
                /\ result = "Unmatched"

DefaultsAllFailed ==
    /\ AllAttemptsFailed
    /\ max_retries = DEFAULT_MAX_RETRIES
    /\ backoff_sec = DEFAULT_BACKOFF
    /\ Calls = DEFAULT_MAX_RETRIES

\* C3 (as claimed): with the defaults and all 5 attempts failing, the total
\* backoff slept is 2+4+8+16+32 = 62 and the result is Unmatched.
C3_TotalBackoff62 ==
    DefaultsAllFailed => (slept = 62 /\ result = "Unmatched")

\* C3 (amended): with the defaults and all 5 attempts failing, the total
\* backoff slept is 2+4+8+16 = 30 (nothing is slept after the last attempt)
\* and the result is Unmatched.
C3_TotalBackoff30 ==
    DefaultsAllFailed => (slept = 30 /\ result = "Unmatched")

\* C3 witness: the default call has failed five times and returned.
C3_Witness == DefaultsAllFailed /\ Fails = 5

(***************************************************************************)
(* Claims about process_file (checked under SpecProcess)                   *)
(***************************************************************************)
\* process_file has written its output table
Written == ppc = "done"

\* the number of complete two-row records of the input table
Records == Len(df) \div 2

\* block n of the output starts with the metadata cells of input record n
BlockOf(n) ==
    /\ SubSeq(output[2 * n - 1], 1, 3) = SubSeq(df[2 * n - 1], 1, 3)
    /\ SubSeq(output[2 * n], 1, 3) = SubSeq(df[2 * n], 1, 3)

OneBlockPerRecord ==
    /\ Len(output) = 2 * Records
    /\ \A n \in 1..Records : BlockOf(n)

\* C4: whatever the table and however the oracle fails, process_file
\* eventually writes its output, and the written output has exactly one
\* two-row block per complete input record, in input order.
C4_BatchCompletes == <>Written /\ [](Written => OneBlockPerRecord)

\* the header cells a question gets when every attempt of its call failed
UnmatchedNames ==
    { ColName(kind, k, "Unmatched") : kind \in {"Q", "R"}, k \in 1..(MaxCols + 1) }

\* C4 witness: a table of two records was written although the oracle failed
\* on every attempt of every question (no reply of ProcessReplies decodes to
\* Unmatched, so the label can only come from the fifth failure).
C4_Witness ==
    /\ Written
    /\ Records >= 2
    /\ Len(classified) >= 2
    /\ \A n \in 1..Records :
          /\ Len(output[2 * n - 1]) > 3
          /\ \A c \in 4..Len(output[2 * n - 1]) : output[2 * n - 1][c] \in UnmatchedNames

\* the columns (Python indices) classified in the record at row index ix, in
\* call order
ClassifiedIn(ix) ==
    [k \in 1..Len(SelectSeq(classified, LAMBDA e : e[1] = ix)) |->
        SelectSeq(classified, LAMBDA e : e[1] = ix)[k][2]]

\* the number of question columns the Segmenter wrote for interview n
SegPairs(n) ==
    Max(Len(parse_qr_from_segments(files[n].segments).q),
        Len(parse_qr_from_segments(files[n].segments).r))

\* the columns (Python indices) of the headers Q_1, Q_2, ... of interview n
SegQuestionCols(n) == [k \in 1..SegPairs(n) |-> 3 + 2 * (k - 1)]

\* the k-th pair of a header row is Q_k_L, R_k_L for one label L
LabeledPair(headers, k) ==
    \E L \in LABEL_SET :
        /\ headers[3 + 2 * k - 1] = ColName("Q", k, L)
        /\ headers[3 + 2 * k] = ColName("R", k, L)

\* C5: for a sheet written by the Segmenter, every question column of every
\* interview is classified exactly once and the output block of the
\* interview has one labeled header pair per question column.
C5_SegmenterConsumed ==
    (Written /\ files # NoFiles) =>
        \A n \in 1..Len(files) :
            /\ ClassifiedIn(2 * (n - 1)) = SegQuestionCols(n)
            /\ Len(output[2 * n - 1]) = 3 + 2 * SegPairs(n)
            /\ \A k \in 1..SegPairs(n) : LabeledPair(output[2 * n - 1], k)

\* the columns (Python indices, from 3) of the header cells of kind Q, in
\* column order
QCols(headers) ==
    SelectSeq([c \in 1..(Len(headers) - 3) |-> c + 2], LAMBDA c : KindOf(headers, c) = "Q")

\* C6: the output header row of every record is Q_1_L1, R_1_L1, ..., Q_K_LK,
\* R_K_LK with K the number of input header cells of kind Q, and the k-th
\* pair carries the content of the k-th such cell in column order.
C6_DenseOverAllQ ==
    Written =>
        \A n \in 1..Records :
            /\ Len(output[2 * n - 1]) = 3 + 2 * Len(QCols(df[2 * n - 1]))
            /\ ClassifiedIn(2 * (n - 1)) = QCols(df[2 * n - 1])
            /\ \A k \in 1..Len(QCols(df[2 * n - 1])) :
                  /\ LabeledPair(output[2 * n - 1], k)
                  /\ output[2 * n][3 + 2 * k - 1] = At(df[2 * n], QCols(df[2 * n - 1])[k])

\* a classify_with_gpt call of process_file is in progress for column col
Calling == ppc = "call"

\* the columns (Python indices) left of col, from the fourth column on, whose
\* header is of kind Q, and those right of col whose header is of kind R
QLeft == {c \in 3..(col - 1) : KindOf(At(df, i), c) = "Q"}
RRight == {c \in (col + 1)..(Len(At(df, i)) - 1) : KindOf(At(df, i), c) = "R"}

\* the content under column c as a context string ("" for an empty cell)
ContentText(c) ==
    IF At(At(df, i + 1), c) = NaN THEN <<>> ELSE Strip(At(At(df, i + 1), c))

\* C14: prev_question is the content under the nearest Q header to the left
\* (not left of the fourth column), next_response the content under the
\* nearest R header to the right; "" when there is none or the cell is empty.
C14_Context ==
    Calling =>
        /\ KindOf(At(df, i), col) = "Q"
        /\ call.question = ContentText(col)
        /\ call.prev_question =
              (IF QLeft = {} THEN <<>>
               ELSE ContentText(CHOOSE c \in QLeft : \A d \in QLeft : d <= c))
        /\ call.next_response =
              (IF RRight = {} THEN <<>>
               ELSE ContentText(CHOOSE c \in RRight : \A d \in RRight : c <= d))

\* C14 witness: a question is classified whose nearest question to the left
\* is not its neighbour, and the context taken from it is not empty.
C14_Witness ==
    /\ Calling
    /\ QLeft # {}
    /\ (col - 1) \notin QLeft
    /\ call.prev_question # <<>>

(***************************************************************************)
(* Claims about check_sheet (checked under SpecValidate)                   *)
(***************************************************************************)
\* the header rows scanned so far
ScannedRows == {r \in 1..Len(ws) : r % 2 = 1 /\ r < vrow}

Scanning == vpc \in {"scan", "saved"}

\* the columns of a row that hold a parsed Q/R header cell
HeaderCols(row) ==
    {c \in 4..Len(row) :
        /\ Truthy(row[c])
        /\ Strip(row[c]) # <<>>
        /\ V_parse_header(row[c]).kind # NoneVal}

KindAt(row, c) == V_parse_header(row[c]).kind
LabelAt(row, c) == V_parse_header(row[c]).label
IdxAt(row, c) == V_parse_header(row[c]).idx

\* the previously parsed header cell of the row (0: there is none)
PrevHdr(row, c) ==
    IF \E b \in HeaderCols(row) : b < c
    THEN CHOOSE b \in HeaderCols(row) :
            b < c /\ \A b2 \in HeaderCols(row) : b2 < c => b2 <= b
    ELSE 0

\* header cells with the same Kind as the previously parsed header cell
AltCols(row) ==
    {c \in HeaderCols(row) :
        PrevHdr(row, c) # 0 /\ KindAt(row, c) = KindAt(row, PrevHdr(row, c))}

ExpectedAltPairs ==
    UNION { { <<r, c>> : c \in AltCols(ws[r]) } : r \in ScannedRows }

ExpectedAltFills ==
    UNION { { <<p[1], p[2]>>, <<p[1], PrevHdr(ws[p[1]], p[2])>> } : p \in ExpectedAltPairs }

FillsBy(why) == { <<f[1], f[2]>> : f \in {g \in fills : g[3] = why} }

\* C7: per header row, each parsed header cell with the same Kind as the
\* previously parsed header cell counts exactly one alternation error and flags
\* that cell and the previously parsed header cell; nothing else is flagged for
\* alternation (so a strictly alternating row counts none).
C7_Alternation ==
    Scanning =>
        /\ Get0(errors, "alternation") = Cardinality(ExpectedAltPairs)
        /\ FillsBy("alternation") = ExpectedAltFills

\* the count half of C7 alone
AlternationCountOnly ==
    Scanning => Get0(errors, "alternation") = Cardinality(ExpectedAltPairs)

DigitVal(t) ==
    CASE t = "0" -> 0 [] t = "1" -> 1 [] t = "2" -> 2 [] t = "3" -> 3 [] t = "4" -> 4
      [] t = "5" -> 5 [] t = "6" -> 6 [] t = "7" -> 7 [] t = "8" -> 8 [] t = "9" -> 9

\* the Index of a header as an integer
RECURSIVE IntOf(_)
IntOf(digs) ==
    IF digs = <<>> THEN 0
    ELSE 10 * IntOf(SubSeq(digs, 1, Len(digs) - 1)) + DigitVal(digs[Len(digs)])

\* a Q-header and an R-header of the row with index ix and different labels
Differ(row, ix) ==
    \E qc \in HeaderCols(row), rc \in HeaderCols(row) :
        /\ KindAt(row, qc) = "Q" /\ KindAt(row, rc) = "R"
        /\ IntOf(IdxAt(row, qc)) = ix /\ IntOf(IdxAt(row, rc)) = ix
        /\ LabelAt(row, qc) # LabelAt(row, rc)

MismatchIdx(row) ==
    {ix \in {IntOf(IdxAt(row, c)) : c \in HeaderCols(row)} : Differ(row, ix)}

ExpectedMismatches ==
    UNION { { <<r, ix>> : ix \in MismatchIdx(ws[r]) } : r \in ScannedRows }

\* C8: per header row, qr_mismatch counts exactly the indices i (as integers)
\* for which a Q-header and an R-header with index i carry different labels.
C8_QRMismatch ==
    Scanning => Get0(errors, "qr_mismatch") = Cardinality(ExpectedMismatches)

\* membership of a normalised label in the Classifier's taxonomy
InTaxonomy(label) == Len(label) = 1 /\ label[1] \in LABEL_SET

ExpectedUnknown ==
    UNION { { <<r, c>> : c \in {d \in HeaderCols(ws[r]) : ~InTaxonomy(LabelAt(ws[r], d))} }
            : r \in ScannedRows }

\* C9: every parsed header cell counts exactly one unknown_label error iff its
\* normalised label is not in the taxonomy; Unmatched is in the Validator's
\* taxonomy, which equals the Classifier's label set.
C9_UnknownLabel ==
    /\ MAIN_LABELS = LABEL_SET
    /\ "Unmatched" \in MAIN_LABELS
    /\ Scanning =>
          /\ Get0(errors, "unknown_label") = Cardinality(ExpectedUnknown)
          /\ FillsBy("unknown_label") = ExpectedUnknown

\* C9 witness: a row with a header labelled Unmatched and one labelled Bogus
\* has been checked and reports one unknown_label.
C9_Witness ==
    /\ vpc = "saved"
    /\ Len(ws) = 2 /\ Len(ws[1]) = 5
    /\ ws[1][4] = HdrCell("Q", <<"2">>, "Unmatched")
    /\ ws[1][5] = HdrCell("R", <<"2">>, "Bogus")
    /\ report.error_counts["unknown_label"] = 1

\* the raw text of a cell holds a tab together with a Q_ or R_ fragment
TabWithFragment(val) ==
    /\ Contains(val, TAB)
    /\ ContainsPair(val, "Q", "_") \/ ContainsPair(val, "R", "_")

ExpectedEmbedded ==
    UNION { { <<r, c>> : c \in {d \in 4..Len(ws[r]) :
                                   Truthy(ws[r][d]) /\ TabWithFragment(ws[r][d])} }
            : r \in ScannedRows }

\* C15: every non-empty header-row cell (after the metadata) whose raw text
\* holds a tab together with a Q_ or R_ fragment counts exactly one embedded
\* error and is flagged; no other cell counts one.
C15_Embedded ==
    Scanning =>
        /\ Get0(errors, "embedded") = Cardinality(ExpectedEmbedded)
        /\ FillsBy("embedded") = ExpectedEmbedded

(***************************************************************************)
(* Claims about compute_improvement (checked under SpecImprove)            *)
(***************************************************************************)
Abs(n) == IF n < 0 THEN -n ELSE n

\* p is b's share fixed, exactly: p (in hundredths) times b is (b - c) * 100 * 100
ExactPct(p, b, c) == ~p.null /\ p.h * b = (b - c) * 10000

\* p is that ratio rounded to two decimals: within half a hundredth of it
RoundedPct(p, b, c) == ~p.null /\ 2 * Abs(p.h * b - (b - c) * 10000) <= b

TypeKeysSeen == (DOMAIN baseline.error_counts) \cup (DOMAIN current.error_counts)

\* C10 (as claimed): overall_percent_fixed equals (baselineTotal - currentTotal)
\* * 100 / baselineTotal when baselineTotal > 0 and is null when it is 0; per
\* category of either report the value is the same ratio of that category's
\* counts, null exactly when its baseline count is zero or absent.
C10_ExactRatio ==
    ipc = "done" =>
        /\ baseline.total_errors > 0 =>
              ExactPct(improvement.overall_percent_fixed,
                       baseline.total_errors, current.total_errors)
        /\ baseline.total_errors = 0 => improvement.overall_percent_fixed.null
        /\ DOMAIN improvement.per_type_percent_fixed = TypeKeysSeen
        /\ \A k \in TypeKeysSeen :
              /\ improvement.per_type_percent_fixed[k].null
                    <=> Get0(baseline.error_counts, k) = 0
              /\ Get0(baseline.error_counts, k) > 0 =>
                    ExactPct(improvement.per_type_percent_fixed[k],
                             Get0(baseline.error_counts, k),
                             Get0(current.error_counts, k))

\* C10 (amended): the same, with each value being the ratio rounded to two
\* decimal places (baseline 10, current 4 gives 60.0; baseline 3, current 1
\* gives 66.67).
C10_RoundedRatio ==
    ipc = "done" =>
        /\ baseline.total_errors > 0 =>
              RoundedPct(improvement.overall_percent_fixed,
                         baseline.total_errors, current.total_errors)
        /\ baseline.total_errors = 0 => improvement.overall_percent_fixed.null
        /\ (baseline.total_errors = 10 /\ current.total_errors = 4) =>
              improvement.overall_percent_fixed.h = 6000
        /\ (baseline.total_errors = 32 /\ current.total_errors = 31) =>
              improvement.overall_percent_fixed.h = 312
        /\ (baseline.total_errors = 4000 /\ current.total_errors = 3999) =>
              improvement.overall_percent_fixed.h = 3
        /\ (baseline.total_errors = 4000 /\ current.total_errors = 3997) =>
              improvement.overall_percent_fixed.h = 7
        /\ DOMAIN improvement.per_type_percent_fixed = TypeKeysSeen
        /\ \A k \in TypeKeysSeen :
              /\ improvement.per_type_percent_fixed[k].null
                    <=> Get0(baseline.error_counts, k) = 0
              /\ Get0(baseline.error_counts, k) > 0 =>
                    RoundedPct(improvement.per_type_percent_fixed[k],
                               Get0(baseline.error_counts, k),
                               Get0(current.error_counts, k))

\* C10 witness: baseline 3 and current 1 give 66.67, with a category that is
\* absent from the baseline (null) and one fixed by half.
C10_Witness ==
    /\ ipc = "done"
    /\ baseline.total_errors = 3 /\ current.total_errors = 1
    /\ improvement.overall_percent_fixed = [null |-> FALSE, h |-> 6667]
    /\ DOMAIN baseline.error_counts = {"alternation"}
    /\ DOMAIN current.error_counts = {"alternation", "qr_mismatch"}
    /\ baseline.error_counts["alternation"] = 2
    /\ current.error_counts["alternation"] = 1
    /\ improvement.per_type_percent_fixed["alternation"].h = 5000
    /\ improvement.per_type_percent_fixed["qr_mismatch"].null

(***************************************************************************)
(* Claims about compile_one_file (checked under SpecSegment)               *)
(***************************************************************************)
\* compile_one_file has returned
Built == spc = "compiled"

\* the segments that start with a key of `keys`, in order
SegsOf(keys) == SelectSeq(segs, LAMBDA sg : AnyKey(sg, keys))

\* what the speakers of `keys` said, in order
Said(keys) ==
    [k \in 1..Len(SegsOf(keys)) |-> AfterKey(SegsOf(keys)[k], FirstKey(SegsOf(keys)[k], keys))]

\* the first segment has the Respondent role
StartsWithRespondent == segs # <<>> /\ AnyKey(segs[1], CORPORATOR_KEYS)

\* the pairs of the content row
PairCount == (Len(compiled[2]) - 3) \div 2
QuestionOf(k) == compiled[2][3 + 2 * k - 1]
ResponseOf(k) == compiled[2][3 + 2 * k]

\* C11: starts_with_corp is true exactly when the first segment is a
\* Respondent segment; then the first pair of the content row is ("", first
\* Respondent utterance) and pair k+1 (k >= 1) is (k-th Interviewer
\* utterance, (k+1)-th Respondent utterance), a missing one being "".
C11_LeadingReply ==
    Built =>
        /\ qr.starts_with_corp <=> StartsWithRespondent
        /\ StartsWithRespondent =>
              /\ PairCount = 1 + Max(Len(Said(INTERVIEWER_KEYS)), Len(Said(CORPORATOR_KEYS)) - 1)
              /\ QuestionOf(1) = <<>>
              /\ ResponseOf(1) = Said(CORPORATOR_KEYS)[1]
              /\ \A k \in 1..(PairCount - 1) :
                    /\ QuestionOf(k + 1) = ItemOrEmpty(Said(INTERVIEWER_KEYS), k - 1)
                    /\ ResponseOf(k + 1) = ItemOrEmpty(Said(CORPORATOR_KEYS), k)

\* C11 witness: a dialogue like R:Hello, I: What, R:John has been compiled.
C11_Witness ==
    /\ Built
    /\ StartsWithRespondent
    /\ PairCount = 2
    /\ ResponseOf(1) # <<>>
    /\ QuestionOf(2) # <<>>
    /\ ResponseOf(2) # <<>>

\* C12: the header row and the content row of compile_one_file have the same
\* length 3 + 2K, K the larger of the numbers of questions and answers.
C12_RowsAligned ==
    Built =>
        /\ Len(compiled[1]) = 3 + 2 * Max(Len(qr.q), Len(qr.r))
        /\ Len(compiled[2]) = Len(compiled[1])

(***************************************************************************)
(* Claims about a whole run (checked under SpecRun)                        *)
(***************************************************************************)
\* the import of label_with_context.py raised
Fatal == CLIENT_MODE = FAIL

\* no record was read, no oracle call made and nothing written or validated
NothingDone ==
    /\ ppc = "idle"
    /\ df = <<>>
    /\ classified = <<>>
    /\ cpc = "idle"
    /\ olog = <<>>
    /\ output = <<>>
    /\ vpc = "idle"

\* a configuration failure: no credential, or no openai package to import
ConfigFailure == NoKey(api_key) \/ sdk = "absent"

C13_Safety ==
    /\ (NoKey(api_key) /\ CLIENT_MODE # NoneVal) => Fatal
    /\ (NoKey(api_key) \/ Fatal) => NothingDone
    /\ Fatal => ConfigFailure

\* C13: without the credential the import raises and the run ends before a
\* record is read, the oracle called or an output written; the run is fatal
\* only on a configuration failure, and every run whose import succeeded
\* writes its output whatever the oracle and the cells do.
C13_FatalOnlyOnConfig ==
    /\ [](C13_Safety)
    /\ (NoKey(api_key) ~> Fatal)
    /\ (Usable ~> Written)

\* C13 witness: the import raised because OPENAI_API_KEY is not set although
\* the new SDK is installed.
C13_Witness == Fatal /\ api_key = NoneVal /\ sdk = "new" /\ NothingDone

\* the Validator has finished the sheet that the Classifier wrote
Validated == ppc = "done" /\ vpc = "saved"

\* C16: check_sheet on the table written by process_file reports no
\* alternation, unknown_label, qr_mismatch or embedded error, and examines
\* two header cells for every classified question.
C16_EndToEndClean ==
    Validated =>
        /\ \A why \in {"alternation", "unknown_label", "qr_mismatch", "embedded"} :
               Get0(report.error_counts, why) = 0
        /\ report.total_header_cells_examined = 2 * Len(classified)

\* C16 witness: the Validator has finished a written table of two records
\* with at least two classified questions, one of them labeled "Unmatched",
\* and has examined two header cells per question.
C16_Witness ==
    /\ Validated
    /\ Len(output) >= 4
    /\ Len(classified) >= 2
    /\ \E r \in ScannedRows : \E c \in 4..Len(ws[r]) : \E n \in 1..MaxCols :
           ws[r][c] = ColName("Q", n, "Unmatched")
    /\ report.total_header_cells_examined = 2 * Len(classified)

====
